---- MODULE Spec2Model ----
(***************************************************************************)
(* A model of the memory store of momo (src/src/core/memory.ts) and of its *)
(* prompt assembly (src/unnamed/part_000).  The three tables of the row    *)
(* store are sequences of rows in insertion order; every async function is *)
(* split at its awaits, one action per run-to-completion segment.          *)
(***************************************************************************)
EXTENDS Integers, Sequences, FiniteSets, TLC

VARIABLES memories, summaries, chunks, now, nextId, started,
          pc, op, arg, emb, dup, sid, todo, ret, pre, obs, done, sumText, anyFault,
          saved, touched, touches, embedLog, maint, prompt

vars == <<memories, summaries, chunks, now, nextId, started,
          pc, op, arg, emb, dup, sid, todo, ret, pre, obs, done, sumText, anyFault,
          saved, touched, touches, embedLog, maint, prompt>>

(***************************************************************************)
(* Bounds of the model.                                                    *)
(***************************************************************************)
\* total number of store calls (saveMemory, saveSummary) a behaviour starts
MaxCalls == 3
\* largest value of the wall clock Date.now()
MaxClock == 1

\* the overlapping callers (async call chains in flight at the same time)
Procs == {"p1", "p2"}

None == [none |-> TRUE]

(***************************************************************************)
(* Result<T, E>                                                            *)
(***************************************************************************)
success(value) == [ok |-> TRUE, value |-> value]

failure(error) == [ok |-> FALSE, error |-> error]

(***************************************************************************)
(* Strings are sequences of characters.                                    *)
(***************************************************************************)
LowerChar(ch) ==
  IF ch = "A" THEN "a" ELSE IF ch = "B" THEN "b" ELSE IF ch = "C" THEN "c" ELSE ch

toLowerCase(s) == [i \in 1..Len(s) |-> LowerChar(s[i])]

IsSpace(ch) == ch \in {" ", "\n", "\t"}

RECURSIVE trimStart(_)
trimStart(s) ==
  IF s # <<>> /\ IsSpace(Head(s)) THEN trimStart(Tail(s)) ELSE s

RECURSIVE trimEnd(_)
trimEnd(s) ==
  IF s # <<>> /\ IsSpace(s[Len(s)]) THEN trimEnd(SubSeq(s, 1, Len(s) - 1)) ELSE s

trim(s) == trimEnd(trimStart(s))

\* existing.content.toLowerCase().trim()
Normalized(s) == trim(toLowerCase(s))

(***************************************************************************)
(* Vector math: cosineSimilarity(a, b) >= threshold, in exact arithmetic.  *)
(***************************************************************************)
RECURSIVE Dot(_, _)
Dot(a, b) ==
  IF a = <<>> THEN 0 ELSE Head(a) * Head(b) + Dot(Tail(a), Tail(b))

\* the similarityThreshold saveMemory passes, 0.9 = ThresholdNum / ThresholdDen
ThresholdNum == 9
ThresholdDen == 10

\* cosineSimilarity throws on vectors of unequal length
cosineThrows(a, b) == Len(a) # Len(b)

\* cosineSimilarity(a, b) >= 0.9, the similarity of a zero vector being 0
cosineAtLeastThreshold(a, b) ==
  /\ Dot(a, a) # 0
  /\ Dot(b, b) # 0
  /\ Dot(a, b) >= 0
  /\ ThresholdDen * ThresholdDen * Dot(a, b) * Dot(a, b)
       >= ThresholdNum * ThresholdNum * Dot(a, a) * Dot(b, b)

(***************************************************************************)
(* The embedding collaborator generateEmbedding(text).                     *)
(***************************************************************************)
\* the vector a deterministic provider computes for a text
Embedding(text) ==
  LET n == Normalized(text)
  IN  IF n = <<>> THEN <<1, 1>>
      ELSE IF Head(n) = "a" THEN <<1, 0>>
      ELSE IF Head(n) = "b" THEN <<3, 1>>
      ELSE IF Head(n) = "c" THEN <<0, 1>>
      ELSE <<1, 1>>

\* a vector of another dimensionality (a provider whose model changed)
OtherDimension == <<1>>

\* every outcome of await generateEmbedding(text)
generateEmbedding(text) ==
  {failure("EmbeddingError"), success(Embedding(text)), success(OtherDimension)}

(***************************************************************************)
(* The row-store collaborator: execute and query may fail.                 *)
(***************************************************************************)
ExecuteOutcomes == {"ok", "PersistenceError"}

QueryOutcomes == {"ok", "PersistenceError"}

(***************************************************************************)
(* Inputs.                                                                 *)
(***************************************************************************)
\* MemoryCandidate values; confidence is in tenths
Candidates ==
  { [type |-> "fact", content |-> <<"a">>, confidence |-> 9, tags |-> <<"t">>],
    [type |-> "preference", content |-> <<"A", " ">>, confidence |-> 5, tags |-> <<>>],
    [type |-> "decision", content |-> <<"b">>, confidence |-> 10, tags |-> <<"t">>],
    [type |-> "observation", content |-> <<"c">>, confidence |-> 15, tags |-> <<"t">>] }

\* the summary texts handed to saveSummary
Texts ==
  { <<"x", "y", "z">> }

\* the summary argument of saveSummary; id = 0 stands for an absent id
SummaryInputs ==
  { [id |-> 0, timeWindow |-> "daily", startDate |-> 0, endDate |-> 1,
     memoryCount |-> 2, createdAt |-> 1],
    [id |-> 101, timeWindow |-> "weekly", startDate |-> 0, endDate |-> 1,
     memoryCount |-> 3, createdAt |-> 1] }

(***************************************************************************)
(* The chunker chunkText(content, DEFAULT_CHUNK_OPTIONS).                  *)
(***************************************************************************)
\* target chunk size in characters
ChunkSize == 2

Min(a, b) == IF a <= b THEN a ELSE b

\* number of line breaks in the first n characters of text
NewlinesBefore(text, n) == Cardinality({i \in 1..n : text[i] = "\n"})

\* contiguous, gap-free chunks of the target size; offsets are 0-based and
\* half-open, lines are 1-based
chunkText(text) ==
  LET n == (Len(text) + ChunkSize - 1) \div ChunkSize
  IN  [k \in 1..n |->
        LET from == (k - 1) * ChunkSize
            to == Min(k * ChunkSize, Len(text))
        IN  [text |-> SubSeq(text, from + 1, to),
             charStart |-> from,
             charEnd |-> to,
             startLine |-> 1 + NewlinesBefore(text, from),
             endLine |-> 1 + NewlinesBefore(text, to - 1)]]

(***************************************************************************)
(* Reading the tables.                                                     *)
(***************************************************************************)
\* the sequences a SELECT ... ORDER BY may return for the rows `table`, the
\* row at position i having the sort key key[i]: every arrangement of the
\* rows in ascending key order, rows with equal keys being in an order SQL
\* leaves unspecified
RowsOrderedBy(table, key) ==
  { [i \in 1..Len(table) |-> table[f[i]]] :
      f \in { g \in Permutations(1..Len(table)) :
                \A i, j \in 1..Len(table) : i < j => key[g[i]] <= key[g[j]] } }

\* SELECT * FROM memories ORDER BY created_at DESC
SelectAllMemories ==
  RowsOrderedBy(memories, [i \in 1..Len(memories) |-> -memories[i].createdAt])

\* the outcomes of getAllMemories()
getAllMemories ==
  {failure("PersistenceError")} \cup {success(rows) : rows \in SelectAllMemories}

(***************************************************************************)
(* isDuplicateMemory: one pass over the records, each record being tried   *)
(* for the exact text match and then for the semantic match.  `path` is    *)
(* the branch that logged 'Duplicate memory found (...)'.                  *)
(***************************************************************************)
RECURSIVE DuplicateScan(_, _, _)
DuplicateScan(existingMemories, content, embedding) ==
  IF existingMemories = <<>>
  THEN [ok |-> TRUE, value |-> FALSE, path |-> "none"]
  ELSE LET existing == Head(existingMemories)
       IN  IF Normalized(existing.content) = Normalized(content)
           THEN [ok |-> TRUE, value |-> TRUE, path |-> "exact"]
           ELSE IF cosineThrows(embedding, existing.embedding)
           THEN failure("DimensionMismatchError")
           ELSE IF cosineAtLeastThreshold(embedding, existing.embedding)
           THEN [ok |-> TRUE, value |-> TRUE, path |-> "semantic"]
           ELSE DuplicateScan(Tail(existingMemories), content, embedding)

isDuplicateMemory(memoriesResult, content, embedding) ==
  IF ~memoriesResult.ok
  THEN failure(memoriesResult.error)
  ELSE DuplicateScan(memoriesResult.value, content, embedding)

(***************************************************************************)
(* The state.                                                              *)
(*   memories, summaries, chunks  the three tables, rows in insert order   *)
(*   now                          Date.now()                               *)
(*   nextId                       the next value of randomUUID()           *)
(*   pc, op, arg                  per caller: its position, the function   *)
(*                                it runs and the arguments                *)
(*   emb, dup                     saveMemory: embeddingResult.value and    *)
(*                                isDuplicateResult                        *)
(*   sid, todo                    saveSummary: summaryWithId.id and the    *)
(*                                chunks the loop has still to write       *)
(*   ret                          per caller: the Result last returned     *)
(* History, read by the properties only:                                   *)
(*   started   number of calls begun                                       *)
(*   pre       per caller: the tables when its call began                  *)
(*   done      the last two completed save calls, the latest first         *)
(*   obs       what the last reader call returned                          *)
(*   sumText   the text of each summaries row, by position                 *)
(*   anyFault  a collaborator has failed, or embed has returned a vector   *)
(*             that is not the deterministic one                           *)
(*   saved     the records successful saveMemory calls have returned       *)
(*   touched   the ids updateMemoryAccess has been called with             *)
(*   touches   per id, the number of updateMemoryAccess calls that have    *)
(*             succeeded on a record with that id                          *)
(*   embedLog  per caller: the answers generateEmbedding has given to its  *)
(*             current call, in order                                      *)
(* The maintenance block of processUserInput has its own state:            *)
(*   maint     the step that is running and the steps of this pass that    *)
(*             have completed                                              *)
(* The prompt assembly has its own state:                                  *)
(*   prompt    the options of buildPrompt, the budget, and the text as it  *)
(*             is built and truncated                                      *)
(***************************************************************************)
Tables == [memories |-> memories, summaries |-> summaries, chunks |-> chunks]

StoreInit ==
  /\ memories = <<>>
  /\ summaries = <<>>
  /\ chunks = <<>>
  /\ now = 0
  /\ nextId = 1
  /\ started = 0
  /\ pc = [p \in Procs |-> "idle"]
  /\ op = [p \in Procs |-> "none"]
  /\ arg = [p \in Procs |-> None]
  /\ emb = [p \in Procs |-> None]
  /\ dup = [p \in Procs |-> None]
  /\ sid = [p \in Procs |-> 0]
  /\ todo = [p \in Procs |-> <<>>]
  /\ ret = [p \in Procs |-> None]
  /\ pre = [p \in Procs |-> None]
  /\ obs = None
  /\ done = <<>>
  /\ sumText = <<>>
  /\ anyFault = FALSE
  /\ saved = <<>>
  /\ touched = {}
  /\ touches = <<>>
  /\ embedLog = [p \in Procs |-> <<>>]
  /\ maint = [running |-> "none", completed |-> <<>>]

Init ==
  /\ StoreInit
  /\ prompt = None

\* the clock advances between any two steps
Tick ==
  /\ now < MaxClock
  /\ now' = now + 1
  /\ UNCHANGED <<memories, summaries, chunks, nextId, started, pc, op, arg, emb,
                 dup, sid, todo, ret, pre, obs, done, sumText, anyFault>>
  /\ UNCHANGED <<saved, touched, prompt>>
  /\ UNCHANGED <<touches, embedLog, maint>>

\* the history after caller p has returned result: the dedup answer is kept
\* for the latest call only
Completed(p, result) ==
  <<[proc |-> p, op |-> op[p], arg |-> arg[p], dup |-> dup[p], ret |-> result,
     pre |-> pre[p]]>>
  \o (IF done = <<>> THEN <<>> ELSE <<[done[1] EXCEPT !.dup = None]>>)

\* the history after caller p has returned result from the call of f with
\* arguments a in the step that began it
CompletedAtOnce(p, f, a, result) ==
  <<[proc |-> p, op |-> f, arg |-> a, dup |-> None, ret |-> result,
     pre |-> Tables]>>
  \o (IF done = <<>> THEN <<>> ELSE <<[done[1] EXCEPT !.dup = None]>>)

\* caller p returns result
Return(p, result) ==
  /\ pc' = [pc EXCEPT ![p] = "idle"]
  /\ ret' = [ret EXCEPT ![p] = result]
  /\ emb' = [emb EXCEPT ![p] = None]
  /\ dup' = [dup EXCEPT ![p] = None]
  /\ sid' = [sid EXCEPT ![p] = 0]
  /\ todo' = [todo EXCEPT ![p] = <<>>]
  /\ done' = Completed(p, result)

\* caller p returns result from the call of f with arguments a before its
\* first await
ReturnAtOnce(p, f, a, result) ==
  /\ pc' = [pc EXCEPT ![p] = "idle"]
  /\ ret' = [ret EXCEPT ![p] = result]
  /\ emb' = [emb EXCEPT ![p] = None]
  /\ dup' = [dup EXCEPT ![p] = None]
  /\ sid' = [sid EXCEPT ![p] = 0]
  /\ todo' = [todo EXCEPT ![p] = <<>>]
  /\ done' = CompletedAtOnce(p, f, a, result)

\* caller p begins a call of function f with arguments a
Begin(p, f, a) ==
  /\ pc[p] = "idle"
  /\ started < MaxCalls
  /\ started' = started + 1
  /\ op' = [op EXCEPT ![p] = f]
  /\ arg' = [arg EXCEPT ![p] = a]
  /\ pre' = [pre EXCEPT ![p] = Tables]

(***************************************************************************)
(* saveMemory(candidate, source = 'conversation')                          *)
(***************************************************************************)
\* the log of caller p once generateEmbedding(text) has answered result
Embedded(p, text, result) ==
  [embedLog EXCEPT ![p] =
     Append(@, [text |-> text,
                error |-> IF result.ok THEN "none" ELSE result.error])]

\* up to `await generateEmbedding(candidate.content)`
SaveMemoryCall(p, candidate) ==
  /\ Begin(p, "saveMemory", candidate)
  /\ embedLog' = [embedLog EXCEPT ![p] = <<>>]
  /\ pc' = [pc EXCEPT ![p] = "sm_embed"]
  /\ ret' = [ret EXCEPT ![p] = None]
  /\ UNCHANGED <<memories, summaries, chunks, now, nextId, emb, dup, sid, todo,
                 obs, done, sumText, anyFault>>
  /\ UNCHANGED <<saved, touched, prompt>>
  /\ UNCHANGED <<touches, maint>>

\* the embedding arrives; isDuplicateMemory is called and runs its query
\* before it suspends at `await getAllMemories()`
SaveMemoryEmbedded(p) ==
  /\ pc[p] = "sm_embed"
  /\ \E embeddingResult \in generateEmbedding(arg[p].content) :
       IF ~embeddingResult.ok
       THEN /\ Return(p, failure(embeddingResult.error))
            /\ anyFault' = TRUE
            /\ embedLog' = Embedded(p, arg[p].content, embeddingResult)
       ELSE \E memoriesResult \in getAllMemories :
              /\ emb' = [emb EXCEPT ![p] = embeddingResult.value]
              /\ embedLog' = Embedded(p, arg[p].content, embeddingResult)
              /\ dup' = [dup EXCEPT ![p] =
                           isDuplicateMemory(memoriesResult, arg[p].content,
                                             embeddingResult.value)]
              /\ pc' = [pc EXCEPT ![p] = "sm_dedup"]
              /\ anyFault' = (anyFault \/ ~memoriesResult.ok
                              \/ embeddingResult.value # Embedding(arg[p].content))
              /\ UNCHANGED <<ret, sid, todo, done>>
  /\ UNCHANGED <<memories, summaries, chunks, now, nextId, started, op, arg, pre,
                 obs, sumText>>
  /\ UNCHANGED <<saved, touched, prompt>>
  /\ UNCHANGED <<touches, maint>>

\* the Memory object saveMemory builds
NewMemory(candidate, embedding, source) ==
  [id |-> nextId,
   type |-> candidate.type,
   content |-> candidate.content,
   embedding |-> embedding,
   createdAt |-> now,
   lastAccessed |-> now,
   accessCount |-> 0,
   relevanceScore |-> candidate.confidence,
   tags |-> candidate.tags,
   source |-> source]

\* a saveMemory that ignores the dedup check (the function as it was before
\* deduplication was added)
SkipsNever(isDuplicateResult) == FALSE

\* the decision saveMemory takes on isDuplicateResult: skip the insert?
SkipsAsDuplicate(isDuplicateResult) ==
  isDuplicateResult.ok /\ isDuplicateResult.value

\* an INSERT whose row is written although it reports failure
InsertedDespiteFailure(table, row, result) == Append(table, row)

\* execute(INSERT INTO ...): the table afterwards
Inserted(table, row, result) ==
  IF result = "ok" THEN Append(table, row) ELSE table

\* the dedup check has answered: skip, or insert and return
SaveMemoryFinish(p) ==
  /\ pc[p] = "sm_dedup"
  /\ IF SkipsAsDuplicate(dup[p])
     THEN /\ Return(p, failure("Duplicate memory"))
          /\ UNCHANGED <<memories, nextId, anyFault, saved>>
     ELSE LET memory == NewMemory(arg[p], emb[p], "conversation")
          IN  \E result \in ExecuteOutcomes :
                /\ memories' = Inserted(memories, memory, result)
                /\ saved' = IF result = "ok" THEN Append(saved, memory) ELSE saved
                /\ nextId' = nextId + 1
                /\ anyFault' = (anyFault \/ result # "ok")
                /\ Return(p, IF result = "ok" THEN success(memory)
                                              ELSE failure(result))
  /\ UNCHANGED <<summaries, chunks, now, started, op, arg, pre, obs, sumText>>
  /\ UNCHANGED <<touched, prompt>>
  /\ UNCHANGED <<touches, embedLog, maint>>

(***************************************************************************)
(* saveSummary(summary, content)                                           *)
(***************************************************************************)
\* summary.id || randomUUID()
SummaryId(summary) == IF summary.id # 0 THEN summary.id ELSE nextId

\* the row of INSERT INTO summaries
SummaryRow(summaryWithId) ==
  [id |-> summaryWithId.id,
   timeWindow |-> summaryWithId.timeWindow,
   startDate |-> summaryWithId.startDate,
   endDate |-> summaryWithId.endDate,
   memoryCount |-> summaryWithId.memoryCount,
   createdAt |-> summaryWithId.createdAt]

\* a chunk row that names no summary
ChunkRowOfNoSummary(summaryId, chunk, embedding) ==
  [id |-> nextId,
   summaryId |-> 0,
   content |-> chunk.text,
   embedding |-> embedding,
   startLine |-> chunk.startLine,
   endLine |-> chunk.endLine,
   charStart |-> chunk.charStart,
   charEnd |-> chunk.charEnd,
   createdAt |-> now]

\* the row of INSERT INTO summary_chunks
ChunkRow(summaryId, chunk, embedding) ==
  [id |-> nextId,
   summaryId |-> summaryId,
   content |-> chunk.text,
   embedding |-> embedding,
   startLine |-> chunk.startLine,
   endLine |-> chunk.endLine,
   charStart |-> chunk.charStart,
   charEnd |-> chunk.charEnd,
   createdAt |-> now]

\* the id column is the table's key: a second row with the id is refused
IdTaken(table, id) == \E i \in 1..Len(table) : table[i].id = id

\* the result of the INSERT INTO summaries the collaborator answered with
MetadataResult(id, result) ==
  IF IdTaken(summaries, id) THEN "PersistenceError" ELSE result

\* a failed compression attempt that has already given up its source records
AfterChunkEmbeddingFailureLosingRecords(p, embeddingResult) ==
  /\ Return(p, failure(embeddingResult.error))
  /\ memories' = <<>>
  /\ UNCHANGED <<summaries, chunks, sumText, nextId>>

\* a loop that asks again for the embedding of the chunk that failed
AfterChunkEmbeddingFailureRetrying(p, embeddingResult) ==
  /\ UNCHANGED <<pc, ret, emb, dup, sid, todo, done>>
  /\ UNCHANGED <<memories, summaries, chunks, sumText, nextId>>

\* where saveSummary goes when embedding the current chunk has failed
AfterChunkEmbeddingFailure(p, embeddingResult) ==
  /\ Return(p, failure(embeddingResult.error))
  /\ UNCHANGED <<memories, summaries, chunks, sumText, nextId>>

\* the metadata row is written, the text is chunked, and the loop reaches
\* its first `await generateEmbedding(chunk.text)`
SaveSummaryCall(p, summary, content) ==
  /\ Begin(p, "saveSummary", [summary |-> summary, content |-> content])
  /\ embedLog' = [embedLog EXCEPT ![p] = <<>>]
  /\ LET id == SummaryId(summary)
         summaryWithId == [summary EXCEPT !.id = id]
     IN  /\ nextId' = IF summary.id # 0 THEN nextId ELSE nextId + 1
         /\ \E result \in ExecuteOutcomes :
              LET metadataResult == MetadataResult(id, result)
              IN  /\ anyFault' = (anyFault \/ result # "ok")
                  /\ summaries' = Inserted(summaries, SummaryRow(summaryWithId),
                                           metadataResult)
                  /\ sumText' = Inserted(sumText, content, metadataResult)
                  /\ IF metadataResult # "ok"
                     THEN ReturnAtOnce(p, "saveSummary",
                                       [summary |-> summary, content |-> content],
                                       failure(metadataResult))
                     ELSE IF chunkText(content) = <<>>
                     THEN ReturnAtOnce(p, "saveSummary",
                                       [summary |-> summary, content |-> content],
                                       success(summaryWithId))
                     ELSE /\ pc' = [pc EXCEPT ![p] = "ss_embed"]
                          /\ sid' = [sid EXCEPT ![p] = id]
                          /\ todo' = [todo EXCEPT ![p] = chunkText(content)]
                          /\ ret' = [ret EXCEPT ![p] = None]
                          /\ UNCHANGED <<emb, dup, done>>
  /\ UNCHANGED <<memories, chunks, now, obs>>
  /\ UNCHANGED <<saved, touched, prompt>>
  /\ UNCHANGED <<touches, maint>>

\* the embedding of the current chunk arrives: the chunk row is written and
\* the loop goes on to the next chunk, or saveSummary returns
SaveSummaryEmbedded(p) ==
  /\ pc[p] = "ss_embed"
  /\ LET chunk == Head(todo[p])
         summaryWithId == [arg[p].summary EXCEPT !.id = sid[p]]
     IN  \E embeddingResult \in generateEmbedding(chunk.text) :
           IF ~embeddingResult.ok
           THEN /\ AfterChunkEmbeddingFailure(p, embeddingResult)
                /\ anyFault' = TRUE
                /\ embedLog' = Embedded(p, chunk.text, embeddingResult)
           ELSE \E chunkResult \in ExecuteOutcomes :
                  /\ embedLog' = Embedded(p, chunk.text, embeddingResult)
                  /\ chunks' = Inserted(chunks,
                                        ChunkRow(sid[p], chunk, embeddingResult.value),
                                        chunkResult)
                  /\ nextId' = nextId + 1
                  /\ anyFault' = (anyFault \/ chunkResult # "ok"
                                  \/ embeddingResult.value # Embedding(chunk.text))
                  /\ UNCHANGED <<memories, summaries, sumText>>
                  /\ IF chunkResult # "ok"
                     THEN Return(p, failure(chunkResult))
                     ELSE IF Tail(todo[p]) = <<>>
                     THEN Return(p, success(summaryWithId))
                     ELSE /\ todo' = [todo EXCEPT ![p] = Tail(todo[p])]
                          /\ UNCHANGED <<pc, ret, emb, dup, sid, done>>
  /\ UNCHANGED <<now, started, op, arg, pre, obs>>
  /\ UNCHANGED <<saved, touched, prompt>>
  /\ UNCHANGED <<touches, maint>>

(***************************************************************************)
(* The serialized columns.  embedding and tags are written as JSON text    *)
(* and parsed when a row is read; the table keeps a row as the Memory it   *)
(* was written from, and a reader gets what the columns parse to.          *)
(***************************************************************************)
\* the JSON literal of a number and of a string
NumberLiteral(number) == ToString(number)

StringLiteral(string) == "\"" \o string \o "\""

\* the element a JSON literal denotes
JSONvalue(literal) ==
  IF SubSeq(literal, 1, 1) = "\""
  THEN SubSeq(literal, 2, Len(literal) - 1)
  ELSE CHOOSE n \in 0..9 : ToString(n) = literal

\* JSON.stringify(memory.embedding), literal by literal
JSONstringifyNumbers(array) == [i \in 1..Len(array) |-> NumberLiteral(array[i])]

\* JSON.stringify(memory.metadata.tags), literal by literal
JSONstringifyStrings(array) == [i \in 1..Len(array) |-> StringLiteral(array[i])]

\* a parse that keeps the first element only
JSONparseFirst(json) ==
  IF json = <<>> THEN <<>> ELSE <<JSONvalue(json[1])>>

\* JSON.parse(json)
JSONparse(json) == [i \in 1..Len(json) |-> JSONvalue(json[i])]

\* the parameters of INSERT INTO memories
MemoryRow(memory) ==
  [memory EXCEPT !.embedding = JSONstringifyNumbers(memory.embedding),
                 !.tags = JSONstringifyStrings(memory.tags)]

\* the Memory a reader maps a row to
MemoryOfRow(row) ==
  [row EXCEPT !.embedding = JSONparse(row.embedding),
              !.tags = JSONparse(row.tags)]

(***************************************************************************)
(* getMemoryById and updateMemoryAccess.  Their bodies have no await: each *)
(* is one step.                                                            *)
(***************************************************************************)
\* SELECT * FROM memories WHERE id = ?: the row, or None when there is none
SelectMemoryById(id) ==
  IF IdTaken(memories, id)
  THEN MemoryRow(memories[CHOOSE i \in 1..Len(memories) : memories[i].id = id])
  ELSE None

\* getMemoryById(id)
GetMemoryById(id) ==
  /\ started < MaxCalls
  /\ started' = started + 1
  /\ \E outcome \in QueryOutcomes :
       obs' = [op |-> "getMemoryById", id |-> id,
               result |-> IF outcome # "ok" THEN failure(outcome)
                          ELSE IF SelectMemoryById(id) = None THEN success(None)
                          ELSE success(MemoryOfRow(SelectMemoryById(id)))]
  /\ UNCHANGED <<memories, summaries, chunks, now, nextId, pc, op, arg, emb, dup,
                 sid, todo, ret, pre, done, sumText, anyFault>>
  /\ UNCHANGED <<saved, touched, prompt>>
  /\ UNCHANGED <<touches, embedLog, maint>>

\* a SET clause that counts an access twice
AccessedRowTwice(row, time) ==
  [row EXCEPT !.lastAccessed = time, !.accessCount = @ + 2]

\* a SET clause that also restamps the row's creation
AccessedRowRestamped(row, time) ==
  [row EXCEPT !.createdAt = time, !.lastAccessed = time, !.accessCount = @ + 1]

\* SET last_accessed = ?, access_count = access_count + 1
AccessedRow(row, time) ==
  [row EXCEPT !.lastAccessed = time, !.accessCount = @ + 1]

\* an UPDATE without its WHERE clause
AccessedEverywhere(table, id, time, result) ==
  IF result = "ok"
  THEN [i \in 1..Len(table) |-> AccessedRow(table[i], time)]
  ELSE table

\* execute(UPDATE memories SET ... WHERE id = ?): the table afterwards
Accessed(table, id, time, result) ==
  IF result = "ok"
  THEN [i \in 1..Len(table) |->
          IF table[i].id = id THEN AccessedRow(table[i], time) ELSE table[i]]
  ELSE table

\* the number of successful accesses of the record with this id
TouchesOf(count, id) == IF id \in DOMAIN count THEN count[id] ELSE 0

\* the counts after execute has answered result to the UPDATE for id
Touched(count, table, id, result) ==
  IF result = "ok" /\ IdTaken(table, id)
  THEN [i \in (DOMAIN count) \cup {id} |-> TouchesOf(count, i) + (IF i = id THEN 1 ELSE 0)]
  ELSE count

\* updateMemoryAccess(id)
UpdateMemoryAccess(id) ==
  /\ started < MaxCalls
  /\ started' = started + 1
  /\ \E result \in ExecuteOutcomes :
       /\ memories' = Accessed(memories, id, now, result)
       /\ touches' = Touched(touches, memories, id, result)
       /\ obs' = [op |-> "updateMemoryAccess", id |-> id, outcome |-> result,
                  result |-> IF result = "ok" THEN success(None)
                                              ELSE failure(result),
                  pre |-> memories,
                  post |-> Accessed(memories, id, now, result)]
       /\ anyFault' = (anyFault \/ result # "ok")
  /\ touched' = touched \cup {id}
  /\ UNCHANGED <<summaries, chunks, now, nextId, pc, op, arg, emb, dup, sid, todo,
                 ret, pre, done, sumText>>
  /\ UNCHANGED <<saved, prompt>>
  /\ UNCHANGED <<embedLog, maint>>

(***************************************************************************)
(* getAllMemories and getOldMemories as calls of a reader.                 *)
(***************************************************************************)
\* getAllMemories()
GetAllMemories ==
  /\ started < MaxCalls
  /\ started' = started + 1
  /\ \E result \in getAllMemories :
       obs' = [op |-> "getAllMemories", result |-> result, table |-> memories,
               outcome |-> IF result.ok THEN "ok" ELSE result.error]
  /\ UNCHANGED <<memories, summaries, chunks, now, nextId, pc, op, arg, emb, dup,
                 sid, todo, ret, pre, done, sumText, anyFault>>
  /\ UNCHANGED <<saved, touched, touches, embedLog, maint, prompt>>

\* a WHERE clause that lets the record created at olderThan through
NotNewerThan(row, olderThan) == row.createdAt <= olderThan

\* WHERE created_at < ?
OlderThan(row, olderThan) == row.createdAt < olderThan

\* SELECT * FROM memories WHERE created_at < ? ORDER BY created_at ASC
SelectOldMemories(olderThan) ==
  LET Old(row) == OlderThan(row, olderThan)
      rows == SelectSeq(memories, Old)
  IN  RowsOrderedBy(rows, [i \in 1..Len(rows) |-> rows[i].createdAt])

\* getOldMemories(olderThan)
GetOldMemories(olderThan) ==
  /\ started < MaxCalls
  /\ started' = started + 1
  /\ \E outcome \in QueryOutcomes :
       IF outcome # "ok"
       THEN obs' = [op |-> "getOldMemories", olderThan |-> olderThan,
                    result |-> failure(outcome), table |-> memories,
                    outcome |-> outcome]
       ELSE \E rows \in SelectOldMemories(olderThan) :
              obs' = [op |-> "getOldMemories", olderThan |-> olderThan,
                      result |-> success(rows), table |-> memories,
                      outcome |-> outcome]
  /\ UNCHANGED <<memories, summaries, chunks, now, nextId, pc, op, arg, emb, dup,
                 sid, todo, ret, pre, done, sumText, anyFault>>
  /\ UNCHANGED <<saved, touched, touches, embedLog, maint, prompt>>

(***************************************************************************)
(* The readers of the summary tables.  Their bodies have no await: each    *)
(* is one step.                                                            *)
(***************************************************************************)
\* SELECT * FROM summary_chunks WHERE summary_id = ? ORDER BY start_line ASC
SelectSummaryChunks(summaryId) ==
  LET OfSummary(row) == row.summaryId = summaryId
      rows == SelectSeq(chunks, OfSummary)
  IN  RowsOrderedBy(rows, [i \in 1..Len(rows) |-> rows[i].startLine])

\* getSummaryChunks(summaryId), for the id of a summary the caller has read
GetSummaryChunks(summaryId) ==
  /\ started < MaxCalls
  /\ started' = started + 1
  /\ \E outcome \in QueryOutcomes :
       IF outcome # "ok"
       THEN obs' = [op |-> "getSummaryChunks", summaryId |-> summaryId,
                    result |-> failure(outcome)]
       ELSE \E rows \in SelectSummaryChunks(summaryId) :
              obs' = [op |-> "getSummaryChunks", summaryId |-> summaryId,
                      result |-> success(rows)]
  /\ UNCHANGED <<memories, summaries, chunks, now, nextId, pc, op, arg, emb, dup,
                 sid, todo, ret, pre, done, sumText, anyFault>>
  /\ UNCHANGED <<saved, touched, prompt>>
  /\ UNCHANGED <<touches, embedLog, maint>>

(***************************************************************************)
(* The maintenance block of processUserInput (STEP 7).  The bodies of its  *)
(* three steps are not part of the repository's sources: a step is a call  *)
(* that is awaited, and only the order of the calls is modelled.           *)
(***************************************************************************)
\* the calls of the block, in the order they are awaited
MaintenanceSteps ==
  <<"summarizeOldMemories", "decayRelevanceScores", "pruneStaleMemories">>

\* if (shouldRunMaintenance()) { await summarizeOldMemories(); ...
MaintenanceBegin ==
  /\ maint.running = "none"
  /\ started < MaxCalls
  /\ started' = started + 1
  /\ maint' = [running |-> MaintenanceSteps[1], completed |-> <<>>]
  /\ UNCHANGED <<memories, summaries, chunks, now, nextId, pc, op, arg, emb, dup,
                 sid, todo, ret, pre, obs, done, sumText, anyFault>>
  /\ UNCHANGED <<saved, touched, touches, embedLog, prompt>>

\* the awaited step returns: the next step is called, or the block ends
MaintenanceStep ==
  /\ maint.running # "none"
  /\ maint' = [running |-> IF Len(maint.completed) + 1 < Len(MaintenanceSteps)
                           THEN MaintenanceSteps[Len(maint.completed) + 2]
                           ELSE "none",
               completed |-> Append(maint.completed, maint.running)]
  /\ UNCHANGED <<memories, summaries, chunks, now, nextId, started, pc, op, arg,
                 emb, dup, sid, todo, ret, pre, obs, done, sumText, anyFault>>
  /\ UNCHANGED <<saved, touched, touches, embedLog, prompt>>

(***************************************************************************)
(* The specifications.                                                     *)
(***************************************************************************)
\* no call is suspended at an await
Quiet == \A p \in Procs : pc[p] = "idle"

\* the callers that may begin a call: "p2" begins one only while "p1" is busy,
\* the two callers being interchangeable
MayBegin(p) == p = "p1" \/ pc["p1"] # "idle"

\* the summary ids a reader may ask for
KnownSummaryIds == {summaries[i].id : i \in 1..Len(summaries)}

\* calls overlap: a call may begin while another is suspended at an await
Next ==
  \/ Tick
  \/ \E p \in Procs, candidate \in Candidates :
       MayBegin(p) /\ SaveMemoryCall(p, candidate)
  \/ \E p \in Procs : SaveMemoryEmbedded(p)
  \/ \E p \in Procs : SaveMemoryFinish(p)
  \/ \E p \in Procs, summary \in SummaryInputs, content \in Texts :
       MayBegin(p) /\ SaveSummaryCall(p, summary, content)
  \/ \E p \in Procs : SaveSummaryEmbedded(p)
  \/ \E summaryId \in KnownSummaryIds : GetSummaryChunks(summaryId)
  \/ \E id \in {memories[i].id : i \in 1..Len(memories)} \cup {0} :
       GetMemoryById(id) \/ UpdateMemoryAccess(id)
  \/ GetAllMemories
  \/ \E olderThan \in 0..(MaxClock + 1) : GetOldMemories(olderThan)
  \/ MaintenanceBegin
  \/ MaintenanceStep

Spec == Init /\ [][Next]_vars

\* overlapping saveMemory calls only
NextMem ==
  \/ Tick
  \/ \E p \in Procs, candidate \in Candidates :
       MayBegin(p) /\ SaveMemoryCall(p, candidate)
  \/ \E p \in Procs : SaveMemoryEmbedded(p)
  \/ \E p \in Procs : SaveMemoryFinish(p)

SpecMem == Init /\ [][NextMem]_vars

\* overlapping saveSummary calls and readers of the summary tables
NextSum ==
  \/ Tick
  \/ \E p \in Procs, summary \in SummaryInputs, content \in Texts :
       MayBegin(p) /\ SaveSummaryCall(p, summary, content)
  \/ \E p \in Procs : SaveSummaryEmbedded(p)
  \/ \E summaryId \in KnownSummaryIds : GetSummaryChunks(summaryId)

SpecSum == Init /\ [][NextSum]_vars

\* the caller of the sequential specifications
Caller == "p1"

\* saveMemory calls that do not overlap: each is awaited before the next
NextMemSeq ==
  \/ Tick
  \/ \E candidate \in Candidates : Quiet /\ SaveMemoryCall(Caller, candidate)
  \/ SaveMemoryEmbedded(Caller)
  \/ SaveMemoryFinish(Caller)

SpecMemSeq == Init /\ [][NextMemSeq]_vars

\* saveSummary calls and reads that do not overlap
NextSumSeq ==
  \/ Tick
  \/ \E summary \in SummaryInputs, content \in Texts :
       Quiet /\ SaveSummaryCall(Caller, summary, content)
  \/ SaveSummaryEmbedded(Caller)
  \/ \E summaryId \in KnownSummaryIds : Quiet /\ GetSummaryChunks(summaryId)

SpecSumSeq == Init /\ [][NextSumSeq]_vars

\* saveSummary calls that do not overlap, with and without an id of the
\* caller's
NextSumWriteSeq ==
  \/ Tick
  \/ \E summary \in SummaryInputs, content \in Texts :
       Quiet /\ SaveSummaryCall(Caller, summary, content)
  \/ SaveSummaryEmbedded(Caller)

SpecSumWriteSeq == Init /\ [][NextSumWriteSeq]_vars

\* the ids a caller passes to getMemoryById and updateMemoryAccess: those of
\* the persisted records, and 0, which no record has
AccessIds == {memories[i].id : i \in 1..Len(memories)} \cup {0}

\* the candidates of the specifications that mix the operations
StoreCandidates == {candidate \in Candidates : candidate.type \in {"fact", "observation"}}

\* saveMemory, getMemoryById and updateMemoryAccess calls that do not overlap
NextAccessSeq ==
  \/ Tick
  \/ \E candidate \in StoreCandidates : Quiet /\ SaveMemoryCall(Caller, candidate)
  \/ SaveMemoryEmbedded(Caller)
  \/ SaveMemoryFinish(Caller)
  \/ \E id \in AccessIds : Quiet /\ GetMemoryById(id)
  \/ \E id \in AccessIds : Quiet /\ UpdateMemoryAccess(id)

SpecAccessSeq == Init /\ [][NextAccessSeq]_vars

\* updateMemoryAccess calls that run at any moment, also while a saveMemory
\* call is suspended at an await; the body of updateMemoryAccess has no await
\* and its UPDATE is one statement, so two of its calls never interleave
NextTouch ==
  \/ Tick
  \/ \E candidate \in StoreCandidates : Quiet /\ SaveMemoryCall(Caller, candidate)
  \/ SaveMemoryEmbedded(Caller)
  \/ SaveMemoryFinish(Caller)
  \/ \E id \in AccessIds : UpdateMemoryAccess(id)

SpecTouch == Init /\ [][NextTouch]_vars

\* the timestamps a reader passes to getOldMemories
Timestamps == 0..(MaxClock + 1)

\* saveMemory calls and reads of the records that do not overlap
NextReadSeq ==
  \/ Tick
  \/ \E candidate \in StoreCandidates : Quiet /\ SaveMemoryCall(Caller, candidate)
  \/ SaveMemoryEmbedded(Caller)
  \/ SaveMemoryFinish(Caller)
  \/ Quiet /\ GetAllMemories
  \/ \E olderThan \in Timestamps : Quiet /\ GetOldMemories(olderThan)

SpecReadSeq == Init /\ [][NextReadSeq]_vars

\* one turn after the other: the extracted memories are persisted (STEP 6),
\* then maintenance may run (STEP 7)
NextTurn ==
  \/ Tick
  \/ \E candidate \in StoreCandidates :
       Quiet /\ maint.running = "none" /\ SaveMemoryCall(Caller, candidate)
  \/ SaveMemoryEmbedded(Caller)
  \/ SaveMemoryFinish(Caller)
  \/ Quiet /\ MaintenanceBegin
  \/ MaintenanceStep

SpecTurn == Init /\ [][NextTurn]_vars

\* the inputs of the specification that compresses: one candidate, and the
\* summaries that come without an id
CompressCandidates == {candidate \in Candidates : candidate.type = "fact"}

CompressSummaries == {summary \in SummaryInputs : summary.id = 0}

\* saveMemory and saveSummary calls that do not overlap
NextCompressSeq ==
  \/ Tick
  \/ \E candidate \in CompressCandidates :
       Quiet /\ SaveMemoryCall(Caller, candidate)
  \/ SaveMemoryEmbedded(Caller)
  \/ SaveMemoryFinish(Caller)
  \/ \E summary \in CompressSummaries, content \in Texts :
       Quiet /\ SaveSummaryCall(Caller, summary, content)
  \/ SaveSummaryEmbedded(Caller)

SpecCompressSeq == Init /\ [][NextCompressSeq]_vars

(***************************************************************************)
(* Prompt construction (prompts.ts).  Strings are TLA+ strings; Len, \o    *)
(* and SubSeq work on them character by character.                         *)
(***************************************************************************)
SYSTEM_PROMPT ==
  "You are Momory, an AI agent with persistent external memory.\n\nCRITICAL CAPABILITIES:\n- You remember facts, preferences, and decisions across sessions\n- You retrieve only relevant memories, not entire history\n- You distinguish between important and trivial information\n- You reason with both retrieved context and current input\n\nRESPONSE GUIDELINES:\n1. Use retrieved memories naturally in your response\n2. Acknowledge when you're recalling past information\n3. If memories conflict, prefer recent over old\n4. If no relevant memory exists, admit it\n5. Be concise and helpful"

Max(a, b) == IF a >= b THEN a ELSE b

\* s.substring(start, end)
substring(s, start, end) ==
  LET a == Max(0, Min(start, Len(s)))
      b == Max(0, Min(end, Len(s)))
  IN  SubSeq(s, Min(a, b) + 1, Max(a, b))

\* parts.join(sep)
RECURSIVE join(_, _)
join(parts, sep) ==
  IF parts = <<>> THEN ""
  ELSE IF Len(parts) = 1 THEN Head(parts)
  ELSE LET half == Len(parts) \div 2
       IN  join(SubSeq(parts, 1, half), sep) \o sep
           \o join(SubSeq(parts, half + 1, Len(parts)), sep)

\* similarity.toFixed(2), the similarity being given in hundredths
toFixed2(hundredths) ==
  LET abs == IF hundredths < 0 THEN -hundredths ELSE hundredths
  IN  (IF hundredths < 0 THEN "-" ELSE "")
      \o ToString(abs \div 100) \o "."
      \o (IF abs % 100 < 10 THEN "0" ELSE "") \o ToString(abs % 100)

\* role.toUpperCase()
toUpperCase(role) == IF role = "user" THEN "USER" ELSE "ASSISTANT"

formatMemories(context) ==
  LET memoriesText ==
        join([i \in 1..Len(context.memories) |->
                ToString(i) \o ". [" \o context.memories[i].memory.type \o "] "
                \o context.memories[i].memory.content
                \o " (relevance: " \o toFixed2(context.memories[i].similarity) \o ")"],
             "\n")
      chunksText ==
        join([i \in 1..Len(context.summaryChunks) |->
                ToString(i) \o ". " \o context.summaryChunks[i].chunk.content
                \o " (relevance: " \o toFixed2(context.summaryChunks[i].similarity)
                \o ")"],
             "\n\n")
      sections ==
        (IF Len(context.memories) > 0
         THEN <<"RELEVANT MEMORIES:\n" \o memoriesText>> ELSE <<>>)
        \o (IF Len(context.summaryChunks) > 0
            THEN <<"HISTORICAL CONTEXT (Summaries):\n" \o chunksText>> ELSE <<>>)
  IN  IF Len(sections) > 0 THEN join(sections, "\n\n")
      ELSE "No relevant memories found."

\* the maxTurns default of formatConversationHistory
DefaultMaxTurns == 10

\* turns.slice(-maxTurns)
lastTurns(turns, maxTurns) ==
  SubSeq(turns, Max(1, Len(turns) - maxTurns + 1), Len(turns))

formatConversationHistory(turns, maxTurns) ==
  IF Len(turns) = 0 THEN ""
  ELSE LET recentTurns == lastTurns(turns, maxTurns)
       IN  "RECENT CONVERSATION:\n"
           \o join([i \in 1..Len(recentTurns) |->
                      toUpperCase(recentTurns[i].role) \o ": "
                      \o recentTurns[i].content],
                   "\n\n")

\* a parts array that begins with the current query
promptPartsQueryFirst(options) ==
  <<"USER: " \o options.userMessage>>
  \o (IF options.includeSystem THEN <<SYSTEM_PROMPT>> ELSE <<>>)
  \o (IF options.retrievedContext # None
      THEN <<formatMemories(options.retrievedContext)>> ELSE <<>>)
  \o (IF Len(options.conversationHistory) > 0
      THEN <<formatConversationHistory(options.conversationHistory,
                                       DefaultMaxTurns)>>
      ELSE <<>>)

\* the parts array of buildPrompt
promptParts(options) ==
  (IF options.includeSystem THEN <<SYSTEM_PROMPT>> ELSE <<>>)
  \o (IF options.retrievedContext # None
      THEN <<formatMemories(options.retrievedContext)>> ELSE <<>>)
  \o (IF Len(options.conversationHistory) > 0
      THEN <<formatConversationHistory(options.conversationHistory,
                                       DefaultMaxTurns)>>
      ELSE <<>>)
  \o <<"USER: " \o options.userMessage>>

buildPrompt(options) == join(promptParts(options), "\n\n---\n\n")

\* Math.ceil(prompt.length / 4)
CharsPerToken == 4

estimatePromptTokens(text) == (Len(text) + CharsPerToken - 1) \div CharsPerToken

isPromptTooLarge(text, maxTokens) == estimatePromptTokens(text) > maxTokens

\* a cut that leaves no trace
NoMarker == ""

TruncationMarker == "\n\n[... context truncated ...]\n\n"

\* the largest power of two that is at most n, for n >= 1
RECURSIVE PowerOfTwoBelow(_)
PowerOfTwoBelow(n) == IF n < 2 THEN 1 ELSE 2 * PowerOfTwoBelow(n \div 2)

\* Math.floor(maxChars * 0.9): the double 0.9 lies above 9/10, so the product
\* is never rounded below an integer 9 * maxChars / 10
floorOf90Percent(maxChars) == (maxChars * 9) \div 10

\* Math.floor(keepChars * 0.7): the double 0.7 lies below 7/10 by 0.4 * 2^-53,
\* so when 7 * keepChars / 10 is an integer n in the upper quarter of its
\* binade the product is rounded to the double below n, and the floor is n - 1
floorOf70Percent(keepChars) ==
  LET n == (keepChars * 7) \div 10
  IN  IF keepChars % 10 = 0 /\ n > 0 /\ 4 * n > 7 * PowerOfTwoBelow(n)
      THEN n - 1 ELSE n

truncatePrompt(text, maxTokens) ==
  LET maxChars == maxTokens * CharsPerToken
      keepChars == floorOf90Percent(maxChars)
      startChars == floorOf70Percent(keepChars)
      endChars == keepChars - startChars
  IN  IF Len(text) <= maxChars THEN text
      ELSE substring(text, 0, startChars) \o TruncationMarker
           \o substring(text, Len(text) - endChars, Len(text))

(***************************************************************************)
(* The inputs of the prompt assembly.                                      *)
(***************************************************************************)
ScoredMemory1 ==
  [memory |-> [type |-> "preference", content |-> "User prefers Python for data tasks"],
   similarity |-> 87]

ScoredMemory2 ==
  [memory |-> [type |-> "fact", content |-> "Project deadline is March 15, 2026"],
   similarity |-> 5]

ScoredChunk1 ==
  [chunk |-> [content |-> "The user works on data pipelines."], similarity |-> 100]

RetrievedContexts ==
  { None,
    [memories |-> <<>>, summaryChunks |-> <<>>],
    [memories |-> <<ScoredMemory1>>, summaryChunks |-> <<>>],
    [memories |-> <<>>, summaryChunks |-> <<ScoredChunk1>>],
    [memories |-> <<ScoredMemory1, ScoredMemory2>>, summaryChunks |-> <<ScoredChunk1>>] }

Turn1 == [role |-> "user", content |-> "Which language should I use?", timestamp |-> 1]

Turn2 == [role |-> "assistant", content |-> "Python.", timestamp |-> 2]

Histories == { <<>>, <<Turn1>>, <<Turn1, Turn2>> }

UserMessages == { "x", "xy", "what language does the user like for data work" }

\* the budgets maxTokens handed to truncatePrompt; 8192 is its default
Budgets == { 1, 2, 25, 76, 77, 8192 }

PromptOptions ==
  [userMessage : UserMessages,
   retrievedContext : RetrievedContexts,
   conversationHistory : Histories,
   includeSystem : BOOLEAN]

(***************************************************************************)
(* The prompt assembly as a machine: the options are chosen, buildPrompt   *)
(* assembles the text, truncatePrompt cuts it to the budget.               *)
(***************************************************************************)
StoreUnchanged ==
  UNCHANGED <<memories, summaries, chunks, now, nextId, started, pc, op, arg, emb,
              dup, sid, todo, ret, pre, obs, done, sumText, anyFault, saved,
              touched, touches, embedLog, maint>>

InitPrompt ==
  /\ StoreInit
  /\ prompt \in [stage : {"options"}, options : PromptOptions, maxTokens : Budgets,
                 text : {""}]

BuildPrompt ==
  /\ prompt.stage = "options"
  /\ prompt' = [prompt EXCEPT !.stage = "built", !.text = buildPrompt(prompt.options)]
  /\ StoreUnchanged

TruncatePrompt ==
  /\ prompt.stage = "built"
  /\ prompt' = [prompt EXCEPT !.stage = "truncated",
                              !.text = truncatePrompt(prompt.text, prompt.maxTokens)]
  /\ StoreUnchanged

NextPrompt ==
  \/ BuildPrompt
  \/ TruncatePrompt

SpecPrompt == InitPrompt /\ [][NextPrompt]_vars

\* the default of truncatePrompt's maxTokens
DefaultMaxTokens == 8192

\* MAX_PROMPT_SIZE, the documented bound on the prompt, in bytes
MaxPromptSize == 8192

\* a retrieval result of n memories
ManyMemories(n) ==
  [i \in 1..n |-> IF i % 2 = 1 THEN ScoredMemory1 ELSE ScoredMemory2]

\* retrieval results of a large store
LargeContexts ==
  { [memories |-> ManyMemories(200), summaryChunks |-> <<ScoredChunk1>>],
    [memories |-> ManyMemories(700), summaryChunks |-> <<>>] }

LargePromptOptions ==
  [userMessage : UserMessages,
   retrievedContext : LargeContexts,
   conversationHistory : Histories,
   includeSystem : BOOLEAN]

\* the prompt assembly with the default budget
InitPromptLarge ==
  /\ StoreInit
  /\ prompt \in [stage : {"options"}, options : LargePromptOptions,
                 maxTokens : {DefaultMaxTokens}, text : {""}]

SpecPromptLarge == InitPromptLarge /\ [][NextPrompt]_vars

(***************************************************************************)
(* Properties.                                                             *)
(***************************************************************************)
\* the latest completed save call and the one before it
Last == done[1]

Previous == done[2]

IsDuplicateOutcome(result) == ~result.ok /\ result.error = "Duplicate memory"

\* the persisted records whose content equals `content` after lower-casing
\* and trimming
RecordsWithContent(content) ==
  {i \in 1..Len(memories) : Normalized(memories[i].content) = Normalized(content)}

\* no record of `table` duplicates `content`, by text or by similarity
Fresh(content, table) ==
  \A i \in 1..Len(table) :
    /\ Normalized(table[i].content) # Normalized(content)
    /\ ~cosineAtLeastThreshold(Embedding(content), table[i].embedding)

\* two consecutive saveMemory calls with the same candidate have completed,
\* embed is deterministic and no collaborator has failed
SavedTwice ==
  /\ Quiet
  /\ Len(done) = 2
  /\ Last.op = "saveMemory"
  /\ Previous.op = "saveMemory"
  /\ Last.arg = Previous.arg
  /\ ~anyFault

\* the first call saved the record, the second reported the duplicate and
\* inserted nothing, and one record has the content
FirstSavesSecondIsDuplicate ==
  /\ Previous.ret.ok
  /\ memories = Append(Previous.pre.memories, Previous.ret.value)
  /\ IsDuplicateOutcome(Last.ret)
  /\ memories = Last.pre.memories
  /\ Cardinality(RecordsWithContent(Last.arg.content)) = 1

\* C1 as stated: two consecutive saveMemory calls with the same candidate
\* content (deterministic embed, no collaborator failure) leave exactly one
\* record with that content; the first call returns the saved record, the
\* second reports the duplicate outcome and inserts nothing.
C1_DedupIdempotence_AsStated == SavedTwice => FirstSavesSecondIsDuplicate

\* C1, amended: the statement holds when the candidate does not already
\* duplicate a stored record (by normalized text or by cosine >= 0.9) at the
\* first call; when it does, both calls report the duplicate outcome and
\* neither inserts, so the store is what it was before the first call.
C1_DedupIdempotence ==
  SavedTwice =>
    IF Fresh(Last.arg.content, Previous.pre.memories)
    THEN FirstSavesSecondIsDuplicate
    ELSE /\ IsDuplicateOutcome(Previous.ret)
         /\ IsDuplicateOutcome(Last.ret)
         /\ memories = Previous.pre.memories

C1_Witness ==
  /\ SavedTwice
  /\ Fresh(Last.arg.content, Previous.pre.memories)
  /\ Previous.pre.memories # <<>>
  /\ IsDuplicateOutcome(Last.ret)

\* a saveSummary call has completed and nothing has run since
SummaryCallDone ==
  /\ Quiet
  /\ done # <<>>
  /\ Last.op = "saveSummary"

\* C2: when the embedding of any chunk fails, saveSummary returns failure
\* and the store holds neither the summary's metadata row nor any of its
\* chunks: the two summary tables are what they were before the call.
C2_SaveSummaryAllOrNothing ==
  (SummaryCallDone /\ ~Last.ret.ok /\ Last.ret.error = "EmbeddingError")
    => /\ summaries = Last.pre.summaries
       /\ chunks = Last.pre.chunks

\* a saveMemory call has completed and nothing has run since
MemoryCallDone ==
  /\ Quiet
  /\ done # <<>>
  /\ Last.op = "saveMemory"

\* C3: a saveMemory call whose embed fails returns a failure, and after a
\* saveMemory that returned the embedding failure or the persistence failure
\* the memories table is exactly what it was before the call; the table
\* differs from what it was only when the call returned success.
C3_FailedSaveLeavesRecords ==
  MemoryCallDone =>
    /\ (Last.dup = None => ~Last.ret.ok /\ Last.ret.error = "EmbeddingError")
    /\ (~Last.ret.ok /\ Last.ret.error \in {"EmbeddingError", "PersistenceError"}
          => memories = Last.pre.memories)
    /\ (memories # Last.pre.memories => Last.ret.ok)

C3_Witness ==
  /\ MemoryCallDone
  /\ ~Last.ret.ok
  /\ Last.ret.error = "PersistenceError"
  /\ memories # <<>>

\* C4: the text that buildPrompt and then truncatePrompt(prompt, maxTokens)
\* produce has estimatePromptTokens(text) <= maxTokens, for every budget
\* maxTokens >= 1.
C4_PromptBudget ==
  prompt # None /\ prompt.stage = "truncated"
    => estimatePromptTokens(prompt.text) <= prompt.maxTokens

\* the variant of a Result: the one thing a caller can test without reading
\* the error message
Variant(result) == IF result.ok THEN "ok" ELSE "error"

\* C5: the outcome saveMemory returns for a duplicate candidate has another
\* variant than the one genuine failures (embedding, persistence) are
\* returned through.
C5_DuplicateIsNotAFailure ==
  (MemoryCallDone /\ Last.dup # None /\ SkipsAsDuplicate(Last.dup))
    => /\ Variant(Last.ret) # Variant(failure("EmbeddingError"))
       /\ Variant(Last.ret) # Variant(failure("PersistenceError"))

\* the dedup check of caller p has read the records (its query succeeded)
DedupChecked(p) ==
  /\ pc[p] = "sm_dedup"
  /\ (dup[p].ok \/ dup[p].error # "PersistenceError")

\* C6: whenever some existing record's content equals the candidate's after
\* lower-casing and trimming, isDuplicateMemory reports the duplicate through
\* the exact-match path, wherever that record stands among the others and
\* whatever their embeddings are.
C6_ExactGateFirst ==
  \A p \in Procs :
    (DedupChecked(p) /\ RecordsWithContent(arg[p].content) # {})
      => dup[p] = [ok |-> TRUE, value |-> TRUE, path |-> "exact"]

\* C7: when the dedup comparison inside saveMemory fails on a stored
\* embedding of another length, saveMemory returns failure and persists no
\* record.
C7_DimensionMismatchIsFatal ==
  (MemoryCallDone /\ Last.dup # None /\ ~Last.dup.ok
     /\ Last.dup.error = "DimensionMismatchError")
    => /\ ~Last.ret.ok
       /\ memories = Last.pre.memories

\* no two persisted records have contents equal after lower-casing and
\* trimming
NoEqualContents ==
  \A i, j \in 1..Len(memories) :
    i # j => Normalized(memories[i].content) # Normalized(memories[j].content)

\* C8: under overlapping saveMemory calls, with a deterministic embed and no
\* collaborator failure, the store never holds two records whose contents
\* are equal after lower-casing and trimming.
C8_DedupUnderOverlap == ~anyFault => NoEqualContents

\* the text saveSummary was given for the summary row with this id
TextOfSummary(summaryId) ==
  sumText[CHOOSE i \in 1..Len(summaries) : summaries[i].id = summaryId]

\* C9: no reader observes a summary with only some of its chunks persisted:
\* with no collaborator failure, every successful getSummaryChunks of a
\* persisted summary returns all the chunks of its text.
C9_SummaryWriteIsAtomic ==
  (~anyFault /\ obs # None /\ obs.result.ok)
    => Len(obs.result.value) = Len(chunkText(TextOfSummary(obs.summaryId)))

\* C10: once the retry of a failed saveSummary succeeds, the store holds,
\* beyond what it held before the failed attempt, exactly one summary record
\* and exactly the chunks of the full text.
C10_RetryAfterFailureIsClean ==
  (SummaryCallDone /\ Len(done) = 2 /\ Previous.op = "saveSummary"
     /\ Previous.arg = Last.arg /\ ~Previous.ret.ok /\ Last.ret.ok)
    => /\ summaries = Append(Previous.pre.summaries, SummaryRow(Last.ret.value))
       /\ Len(chunks) = Len(Previous.pre.chunks) + Len(chunkText(Last.arg.content))
       /\ \A i \in 1..Len(chunks) :
            i > Len(Previous.pre.chunks) => chunks[i].summaryId = Last.ret.value.id

\* updateMemoryAccess has been called, obs holding what it did
AccessObserved == obs # None /\ obs.op = "updateMemoryAccess"

\* C11: updateMemoryAccess(id) with an id that no record of the store has
\* leaves every record unchanged and, whenever the store executes the
\* statement, returns success: the missing id is never an error.
C11_AccessOfAbsentIdIsNoOp ==
  (AccessObserved /\ ~IdTaken(obs.pre, obs.id))
    => /\ obs.post = obs.pre
       /\ (obs.outcome = "ok" => obs.result = success(None))

C11_Witness ==
  /\ AccessObserved
  /\ ~IdTaken(obs.pre, obs.id)
  /\ obs.pre # <<>>
  /\ obs.result.ok

\* the record a successful saveMemory returned with this id
WasSaved(id) == \E i \in 1..Len(saved) : saved[i].id = id

SavedRecord(id) == saved[CHOOSE i \in 1..Len(saved) : saved[i].id = id]

\* getMemoryById has returned success, obs holding what it returned
FetchObserved == obs # None /\ obs.op = "getMemoryById" /\ obs.result.ok

\* C12: a successful getMemoryById(id) of a record that a successful
\* saveMemory returned gives a record equal to it in id, type, content,
\* embedding, createdAt, relevanceScore, tags and source; lastAccessed and
\* accessCount are the saved ones too unless updateMemoryAccess(id) has been
\* called, whatever other calls were made.
C12_SaveThenGetRoundTrip ==
  (FetchObserved /\ WasSaved(obs.id))
    => LET fetched == obs.result.value
           record == SavedRecord(obs.id)
       IN  /\ fetched # None
           /\ fetched.id = record.id
           /\ fetched.type = record.type
           /\ fetched.content = record.content
           /\ fetched.embedding = record.embedding
           /\ fetched.createdAt = record.createdAt
           /\ fetched.relevanceScore = record.relevanceScore
           /\ fetched.tags = record.tags
           /\ fetched.source = record.source
           /\ (obs.id \notin touched
                 => /\ fetched.lastAccessed = record.lastAccessed
                    /\ fetched.accessCount = record.accessCount)

C12_Witness ==
  /\ FetchObserved
  /\ WasSaved(obs.id)
  /\ obs.id \notin touched
  /\ Len(obs.result.value.embedding) = 2
  /\ obs.result.value.tags # <<>>
  /\ now > obs.result.value.createdAt

\* text.indexOf(needle): the offset of the first occurrence, or -1
indexOf(text, needle) ==
  LET hits == {i \in 0..(Len(text) - Len(needle)) :
                 SubSeq(text, i + 1, i + Len(needle)) = needle}
  IN  IF hits = {} THEN -1 ELSE CHOOSE i \in hits : \A j \in hits : i <= j

\* how the four sections before the query begin, in the order the block is
\* to have them: system framing, ranked memories, ranked summary chunks,
\* recent conversation
SectionHeaders ==
  <<"You are Momory", "RELEVANT MEMORIES:\n", "HISTORICAL CONTEXT (Summaries):\n",
    "RECENT CONVERSATION:\n">>

\* which of the four sections the options ask for
SectionPresent(options) ==
  <<options.includeSystem,
    options.retrievedContext # None /\ Len(options.retrievedContext.memories) > 0,
    options.retrievedContext # None
      /\ Len(options.retrievedContext.summaryChunks) > 0,
    Len(options.conversationHistory) > 0>>

Built == prompt # None /\ prompt.stage = "built"

Truncated == prompt # None /\ prompt.stage = "truncated"

RECURSIVE OffsetOfPart(_, _)
OffsetOfPart(parts, k) ==
  IF k = 1 THEN 0
  ELSE OffsetOfPart(parts, k - 1) + Len(parts[k - 1]) + Len("\n\n---\n\n")

\* C14: when the assembled block is over the budget, no character of the
\* memories and summary-chunks section is removed while a character of the
\* conversation-history section is kept.
C14_HistoryIsCutBeforeMemories ==
  (Truncated /\ prompt.options.retrievedContext # None
     /\ Len(prompt.options.conversationHistory) > 0
     /\ prompt.text # buildPrompt(prompt.options))
    => LET parts == promptParts(prompt.options)
           length == Len(buildPrompt(prompt.options))
           context == IF prompt.options.includeSystem THEN 2 ELSE 1
           history == context + 1
           contextStart == OffsetOfPart(parts, context)
           contextEnd == contextStart + Len(parts[context])
           historyStart == OffsetOfPart(parts, history)
           historyEnd == historyStart + Len(parts[history])
           head == indexOf(prompt.text, "\n\n[... context truncated ...]\n\n")
           tail == Len(prompt.text) - head
                     - Len("\n\n[... context truncated ...]\n\n")
           historyKept == historyStart < head \/ historyEnd > length - tail
           contextWhole == contextEnd <= head \/ contextStart >= length - tail
       IN  historyKept => contextWhole

\* C15: truncatePrompt returns its input unchanged exactly when the input is
\* within the budget (length <= maxTokens * 4, which is when isPromptTooLarge
\* is false); otherwise it returns a prefix of the input, the marker
\* '[... context truncated ...]' between blank lines, and a suffix of the
\* input, so an output that differs from its input contains the marker.
C15_TruncationIsMarked ==
  Truncated =>
    LET input == buildPrompt(prompt.options)
        output == prompt.text
        marker == "\n\n[... context truncated ...]\n\n"
        head == indexOf(output, marker)
        tail == Len(output) - head - Len(marker)
    IN  /\ (output = input) <=> (Len(input) <= prompt.maxTokens * 4)
        /\ (Len(input) <= prompt.maxTokens * 4)
             <=> ~isPromptTooLarge(input, prompt.maxTokens)
        /\ output # input
             => /\ head >= 0
                /\ SubSeq(output, 1, head) = SubSeq(input, 1, head)
                /\ SubSeq(output, head + Len(marker) + 1, Len(output))
                     = SubSeq(input, Len(input) - tail + 1, Len(input))

C15_Witness ==
  /\ Truncated
  /\ prompt.text # buildPrompt(prompt.options)
  /\ indexOf(prompt.text, "[... context truncated ...]") > 0

\* the contents of the rows, one after the other
RECURSIVE Concatenated(_)
Concatenated(rows) ==
  IF rows = <<>> THEN <<>> ELSE Head(rows).content \o Concatenated(Tail(rows))

\* a saveSummary call that returned success for the summary with this id is
\* among the completed calls
SummarySaved(summaryId) ==
  \E k \in 1..Len(done) :
    /\ done[k].op = "saveSummary"
    /\ done[k].ret.ok
    /\ done[k].ret.value.id = summaryId

\* C16: after a successful saveSummary(summary, fullText), a successful
\* getSummaryChunks(summary.id) returns the chunks in start-offset order: each
\* chunk's charStart is the charEnd of the one before it, and the returned
\* contents, concatenated, are fullText, also when several chunks start on
\* the same line.
C16_ChunksReadInOffsetOrder ==
  (obs # None /\ obs.op = "getSummaryChunks" /\ obs.result.ok
     /\ SummarySaved(obs.summaryId))
    => LET rows == obs.result.value
       IN  /\ \A i \in 2..Len(rows) : rows[i].charStart = rows[i - 1].charEnd
           /\ Concatenated(rows) = TextOfSummary(obs.summaryId)

\* C17: saveSummary, at whichever step it succeeds or fails, leaves every
\* memory record as it was: from the call on, the memories table is what it
\* was when the call began.
C17_SaveSummaryLeavesMemories ==
  \A p \in Procs :
    op[p] = "saveSummary" => memories = pre[p].memories

C17_Witness ==
  /\ SummaryCallDone
  /\ memories # <<>>
  /\ chunks # <<>>
  /\ ~Last.ret.ok
  /\ Last.ret.error = "EmbeddingError"

\* C18: every store operation ends in an explicit Result, and a collaborator
\* that fails during the operation makes that Result a failure: a saveMemory
\* during which the query of the records failed returns failure.
C18_FaultsYieldFailure ==
  MemoryCallDone
    => /\ Last.ret.ok \in BOOLEAN
       /\ (Last.dup # None /\ ~Last.dup.ok /\ Last.dup.error = "PersistenceError"
             => ~Last.ret.ok)

\* C19: every persisted memory record has relevanceScore in [0, 1] (0..10
\* in tenths), whatever confidence its candidate carried.
C19_RelevanceScoreInRange ==
  \A i \in 1..Len(memories) : memories[i].relevanceScore \in 0..10

\* a row without the two fields that record accesses
WithoutAccessFields(row) == [row EXCEPT !.lastAccessed = 0, !.accessCount = 0]

\* C20: no step removes a persisted record or changes its id, type, content,
\* embedding, createdAt, relevanceScore, tags or source: only lastAccessed
\* and accessCount are rewritten; and no two persisted records share an id.
C20_IdentityFieldsAreImmutable ==
  [][/\ Len(memories') >= Len(memories)
     /\ \A i \in 1..Len(memories) :
          WithoutAccessFields(memories'[i]) = WithoutAccessFields(memories[i])
     /\ \A i, j \in 1..Len(memories') :
          i # j => memories'[i].id # memories'[j].id]_vars

C20_Witness ==
  /\ Len(memories) = 2
  /\ \E i \in 1..Len(memories) :
       /\ memories[i].accessCount > 0
       /\ memories[i].lastAccessed > memories[i].createdAt

\* C21: a record's accessCount starts at 0 and never decreases, and it is
\* at every moment the number of updateMemoryAccess calls that succeeded on
\* the record's id: each such call raises it by exactly 1, N of them by N,
\* whatever other calls run in between or are suspended meanwhile.
C21_AccessCountCountsTouches ==
  [][/\ \A i \in 1..Len(memories) :
          memories'[i].accessCount >= memories[i].accessCount
     /\ \A i \in (1..Len(memories')) \ (1..Len(memories)) :
          memories'[i].accessCount = 0
     /\ \A i \in 1..Len(memories') :
          memories'[i].accessCount = TouchesOf(touches', memories'[i].id)]_vars

C21_Witness ==
  \E i \in 1..Len(memories) :
    /\ memories[i].accessCount = 2
    /\ TouchesOf(touches, memories[i].id) = 2

\* C22: with the default budget the prompt that buildPrompt and then
\* truncatePrompt produce never exceeds 8 KB (8192 characters), however many
\* memories, summary chunks and conversation turns are supplied.
C22_PromptWithin8KB ==
  (Truncated /\ prompt.maxTokens = DefaultMaxTokens)
    => Len(prompt.text) <= MaxPromptSize

\* the steps of the running maintenance pass that have completed
CompletedSteps == {maint.completed[k] : k \in 1..Len(maint.completed)}

\* C23: whenever maintenance runs, summarization does not start before
\* decay has completed and pruning does not start before summarization has
\* completed: the steps run in the order decay, summarization, pruning.
C23_MaintenanceOrder ==
  /\ (maint.running = "summarizeOldMemories"
        => "decayRelevanceScores" \in CompletedSteps)
  /\ (maint.running = "pruneStaleMemories"
        => "summarizeOldMemories" \in CompletedSteps)

\* the rows of a sequence, as a set
RowsOf(rows) == {rows[i] : i \in 1..Len(rows)}

\* a read of the records has returned, obs holding the answer and the table
\* it was read from
ReadObserved(name) == obs # None /\ obs.op = name

\* C24: getAllMemories returns every persisted record, newest first
\* (createdAt non-increasing); getOldMemories(t) returns exactly the records
\* with createdAt < t, a record created at t not among them, oldest first
\* (createdAt non-decreasing); on an empty store both return the empty
\* sequence, and neither fails unless the store's query does.
C24_ReadsAreOrdered ==
  /\ ReadObserved("getAllMemories")
       => /\ obs.outcome = "ok" => obs.result.ok
          /\ obs.result.ok
               => LET rows == obs.result.value
                  IN  /\ Len(rows) = Len(obs.table)
                      /\ RowsOf(rows) = RowsOf(obs.table)
                      /\ \A i, j \in 1..Len(rows) :
                           i < j => rows[i].createdAt >= rows[j].createdAt
  /\ ReadObserved("getOldMemories")
       => /\ obs.outcome = "ok" => obs.result.ok
          /\ obs.result.ok
               => LET rows == obs.result.value
                      old == {i \in 1..Len(obs.table) :
                                obs.table[i].createdAt < obs.olderThan}
                  IN  /\ Len(rows) = Cardinality(old)
                      /\ RowsOf(rows) = {obs.table[i] : i \in old}
                      /\ \A i, j \in 1..Len(rows) :
                           i < j => rows[i].createdAt <= rows[j].createdAt

C24_Witness ==
  /\ ReadObserved("getOldMemories")
  /\ obs.result.ok
  /\ Len(obs.result.value) = 1
  /\ \E i \in 1..Len(obs.table) : obs.table[i].createdAt = obs.olderThan

\* every row of the table is still there, unchanged and in its place, after
\* the step
RowsKept(table, tableAfter) ==
  /\ Len(tableAfter) >= Len(table)
  /\ \A i \in 1..Len(table) : tableAfter[i] = table[i]

\* C25: after every step each persisted chunk's summaryId is the id of a
\* persisted summary record, and the step has left every summary record and
\* every chunk that was already written as it was: none modified, none deleted.
C25_ChunksOwnedAndImmutable ==
  [][/\ RowsKept(summaries, summaries')
     /\ RowsKept(chunks, chunks')
     /\ \A i \in 1..Len(chunks') : IdTaken(summaries', chunks'[i].summaryId)]_vars

C25_Witness ==
  /\ Len(summaries) >= 2
  /\ \E i, j \in 1..Len(chunks) : chunks[i].summaryId # chunks[j].summaryId

\* C26: after non-overlapping saveMemory calls, those whose read of the
\* records or whose comparison failed included, no two persisted records have
\* contents equal after lower-casing and trimming, and a call that has
\* inserted its candidate had a dedup check that completed and answered
\* "not a duplicate".
C26_InsertOnlyAfterCompletedCheck ==
  /\ NoEqualContents
  /\ (MemoryCallDone /\ memories # Last.pre.memories)
       => (Last.dup # None /\ Last.dup.ok /\ ~Last.dup.value)

\* the texts of the chunks of content, in the order of the loop
ChunkTexts(content) ==
  [k \in 1..Len(chunkText(content)) |-> chunkText(content)[k].text]

\* the texts the caller's current or latest call has handed to embed
EmbeddedTexts ==
  [k \in 1..Len(embedLog[Caller]) |-> embedLog[Caller][k].text]

IsPrefix(s, t) ==
  /\ Len(s) <= Len(t)
  /\ \A k \in 1..Len(s) : s[k] = t[k]

\* C27: no embedding is retried.  A saveMemory call invokes embed exactly
\* once, on the candidate's content; a saveSummary call invokes it on the
\* chunks in order, at most once each, on all of them when it returns
\* success; an embed that failed is the last one of its call, and the call
\* has returned that failure.
C27_EmbeddingIsNeverRetried ==
  /\ \A k \in 1..Len(embedLog[Caller]) :
       embedLog[Caller][k].error # "none"
         => /\ k = Len(embedLog[Caller])
            /\ Quiet
            /\ Last.ret = failure(embedLog[Caller][k].error)
  /\ (~Quiet /\ op[Caller] = "saveMemory") => Len(embedLog[Caller]) <= 1
  /\ MemoryCallDone => EmbeddedTexts = <<Last.arg.content>>
  /\ (~Quiet /\ op[Caller] = "saveSummary")
       => IsPrefix(EmbeddedTexts, ChunkTexts(arg[Caller].content))
  /\ SummaryCallDone
       => /\ IsPrefix(EmbeddedTexts, ChunkTexts(Last.arg.content))
          /\ Last.ret.ok => EmbeddedTexts = ChunkTexts(Last.arg.content)

C27_Witness ==
  /\ SummaryCallDone
  /\ Len(embedLog[Caller]) = 2
  /\ embedLog[Caller][2].error = "EmbeddingError"
  /\ Last.ret = failure("EmbeddingError")
  /\ Len(done) >= 2
  /\ done[2].op = "saveMemory"
  /\ ~done[2].ret.ok
  /\ done[2].ret.error = "EmbeddingError"

====
